---- MODULE Spec2Model ----
(* Model of nautilus_open_any_terminal.py: the terminal registry, the      *)
(* settings-change handler set_terminal_args, the os-release lookup        *)
(* distro_id and the command builder open_terminal_in_uri.                 *)
(*                                                                         *)
(* Encoding of Python values:                                              *)
(*   Optional[T]  : None is <<>>, a present value x is <<x>>               *)
(*   str          : a sequence of tokens (each token an atomic piece of     *)
(*                  text), so that concatenation, quoting and decoding     *)
(*                  are computed and not assumed                           *)
(*   list[str]    : a sequence of such strings                             *)
EXTENDS Integers, Sequences, FiniteSets, TLC

\* ------------------------------------------------------------------ bounds
MaxLines == 2        \* lines per os-release file (SpecOS)
MaxPathLen == 1      \* tokens in the path component of a URI

\* ------------------------------------------------------- Python encodings
None == <<>>
Some(x) == <<x>>
\* one-token string
W(s) == <<s>>
\* truthiness of an Optional[list]: None and [] are both falsy
Truthy(opt) == opt /= None /\ opt[1] /= <<>>
\* the list inside an Optional[list] known to be present
ListOf(opt) == opt[1]
\* list[str] literal from a sequence of one-token words
Words(ws) == [i \in 1..Len(ws) |-> W(ws[i])]

\* --------------------------------------------------------------- registry
Terminal(name, workdir, tab, window, cmdargs, pkg) ==
    [name |-> name, workdir_arguments |-> workdir, new_tab_arguments |-> tab,
     new_window_arguments |-> window, command_arguments |-> cmdargs,
     flatpak_package |-> pkg]

\* Terminal(name) with every other field at its dataclass default
Plain(name) == Terminal(name, None, None, None, Words(<<"-e">>), None)
WithTab(name, tab) ==
    Terminal(name, None, Some(Words(tab)), None, Words(<<"-e">>), None)
WithWorkdir(name, wd) ==
    Terminal(name, Some(Words(wd)), None, None, Words(<<"-e">>), None)

TERMINALS ==
    [t \in {"alacritty", "blackbox", "cool-retro-term", "deepin-terminal",
            "foot", "footclient", "gnome-terminal", "guake", "hyper",
            "kermit", "kgx", "kitty", "konsole", "mate-terminal", "mlterm",
            "prompt", "qterminal", "rio", "sakura", "st", "tabby",
            "terminator", "terminology", "terminus", "termite", "tilix",
            "urxvt", "urxvtc", "uxterm", "warp", "wezterm",
            "xfce4-terminal", "xterm"} |->
     CASE t = "alacritty" -> Plain("Alacritty")
       [] t = "blackbox" ->
            Terminal("Black Box", Some(Words(<<"--working-directory">>)), None,
                     None, Words(<<"-c">>), Some("com.raggesilver.BlackBox"))
       [] t = "cool-retro-term" -> WithWorkdir("cool-retro-term", <<"--workdir">>)
       [] t = "deepin-terminal" -> Plain("Deepin Terminal")
       [] t = "foot" -> Plain("Foot")
       [] t = "footclient" -> Plain("FootClient")
       [] t = "gnome-terminal" -> WithTab("Terminal", <<"--tab">>)
       [] t = "guake" -> WithWorkdir("Guake", <<"--show", "--new-tab">>)
       [] t = "hyper" -> Plain("Hyper")
       [] t = "kermit" -> Plain("Kermit")
       [] t = "kgx" -> WithTab("Console", <<"--tab">>)
       [] t = "kitty" -> Plain("kitty")
       [] t = "konsole" -> WithTab("Konsole", <<"--new-tab">>)
       [] t = "mate-terminal" -> WithTab("Mate Terminal", <<"--tab">>)
       [] t = "mlterm" -> Plain("Mlterm")
       [] t = "prompt" ->
            Terminal("Prompt", None, Some(Words(<<"--tab">>)),
                     Some(Words(<<"--new-window">>)), Words(<<"-x">>),
                     Some("org.gnome.Prompt"))
       [] t = "qterminal" -> Plain("QTerminal")
       [] t = "rio" -> Plain("Rio")
       [] t = "sakura" -> Plain("Sakura")
       [] t = "st" -> Plain("Simple Terminal")
       [] t = "tabby" ->
            Terminal("Tabby", Some(Words(<<"open">>)), None, None,
                     Words(<<"run">>), None)
       [] t = "terminator" -> WithTab("Terminator", <<"--new-tab">>)
       [] t = "terminology" -> Plain("Terminology")
       [] t = "terminus" -> Plain("Terminus")
       [] t = "termite" -> Plain("Termite")
       [] t = "tilix" ->
            Terminal("Tilix", None, None, None, Words(<<"-e">>),
                     Some("com.gexperts.Tilix"))
       [] t = "urxvt" -> Plain("rxvt-unicode")
       [] t = "urxvtc" -> Plain("urxvtc")
       [] t = "uxterm" -> Plain("UXTerm")
       [] t = "warp" -> Plain("warp")
       [] t = "wezterm" ->
            Terminal("Wez's Terminal Emulator",
                     Some(Words(<<"start", "--cwd">>)), None, None,
                     Words(<<"-e">>), Some("org.wezfurlong.wezterm"))
       [] t = "xfce4-terminal" -> WithTab("Xfce Terminal", <<"--tab">>)
       [] t = "xterm" -> Plain("XTerm")]

FLATPAK_PARMS == <<"off", "system", "user">>
REMOTE_URI_SCHEME == {"ftp", "sftp"}

\* TERMINALS.get(value): None when the key is absent
TerminalsGet(value) ==
    IF value \in DOMAIN TERMINALS THEN Some(TERMINALS[value]) ELSE None

\* ----------------------------------------------------------------- inputs
\* values the "terminal" key of the settings store takes in the model: one
\* registry entry of each shape, and a string that is not in the registry
TerminalValues ==
    {"gnome-terminal", "blackbox", "prompt", "tilix", "xterm", "no-such-term"}

VARIABLES
    etc_os_release,      \* content of /etc/os-release
    usr_lib_os_release,  \* content of /usr/lib/os-release
    gsettings,           \* the settings store: terminal, new_tab, flatpak
    connected,           \* "changed" is connected to set_terminal_args
    terminal,            \* global terminal
    terminal_cmd,        \* global terminal_cmd: Optional[list[str]]
    terminal_data,       \* global terminal_data
    new_tab,             \* global new_tab
    flatpak,             \* global flatpak
    distro_cache,        \* functools.cache of distro_id: Optional[str]
    pc,                  \* "load", "running" or "failed" (import raised)
    lastOp,              \* what ran last: "import", "startup", the settings
                         \* key of a "changed" signal, or
                         \* "open_terminal_in_uri"
    raised,              \* exception the last callback ended with
    lastUri,             \* argument of the last open_terminal_in_uri call
    spawned              \* Popen calls made by the last callback

vars == <<etc_os_release, usr_lib_os_release, gsettings, connected, terminal,
          terminal_cmd, terminal_data, new_tab, flatpak, distro_cache, pc,
          lastOp, raised, lastUri, spawned>>

config == <<terminal, terminal_cmd, terminal_data, new_tab, flatpak>>
files == <<etc_os_release, usr_lib_os_release>>

\* ------------------------------------------------------------- os-release
\* a file is missing, unreadable (open raises PermissionError), or has lines
File(st, lines) == [st |-> st, lines |-> lines]
Missing == File("missing", <<>>)
Denied == File("denied", <<>>)
Present(lines) == File("ok", lines)

\* a line after rstrip(): empty, a comment, NAME=val (the regular expression
\* matches), or anything the regular expression does not match
Line(k, name, val) == [k |-> k, name |-> name, val |-> val]
BlankLine == Line("blank", "", <<>>)
CommentLine == Line("comment", "", <<>>)
BadLine == Line("bad", "", <<>>)
Assign(name, val) == Line("assign", name, val)

QUOTES == {"\"", "'"}

IsOSError(exc) == exc \in {"OSError", "PermissionError"}

\* ast.literal_eval on a value that starts with a quote: the text between
\* matching quotes, SyntaxError when the literal is not closed
LiteralEval(val) ==
    IF Len(val) >= 2 /\ val[Len(val)] = val[1]
    THEN [val |-> SubSeq(val, 2, Len(val) - 1), exc |-> "none"]
    ELSE [val |-> <<>>, exc |-> "SyntaxError"]

\* one iteration of the loop over the lines of one file
ParseLine(line) ==
    IF line.k \in {"blank", "comment"}
    THEN [act |-> "continue", name |-> "", val |-> <<>>, exc |-> "none"]
    ELSE IF line.k = "assign"
    THEN IF line.val /= <<>> /\ line.val[1] \in QUOTES
         THEN LET e == LiteralEval(line.val) IN
              IF e.exc = "none"
              THEN [act |-> "yield", name |-> line.name, val |-> e.val,
                    exc |-> "none"]
              ELSE [act |-> "raise", name |-> "", val |-> <<>>, exc |-> e.exc]
         ELSE [act |-> "yield", name |-> line.name, val |-> line.val,
               exc |-> "none"]
    ELSE [act |-> "raise", name |-> "", val |-> <<>>, exc |-> "OSError"]

\* the pairs one file yields, in order, and the exception that ended it
RECURSIVE ReadLines(_, _, _)
ReadLines(lines, i, pairs) ==
    IF i > Len(lines) THEN [pairs |-> pairs, exc |-> "none"]
    ELSE LET p == ParseLine(lines[i]) IN
         IF p.act = "raise" THEN [pairs |-> pairs, exc |-> p.exc]
         ELSE IF p.act = "yield"
         THEN ReadLines(lines, i + 1, Append(pairs, <<p.name, p.val>>))
         ELSE ReadLines(lines, i + 1, pairs)

\* the generator, consumed to its end: every path of the list is visited
RECURSIVE ReadPaths(_, _, _)
ReadPaths(fs, i, pairs) ==
    IF i > Len(fs) THEN [pairs |-> pairs, exc |-> "none"]
    ELSE IF fs[i].st = "missing" THEN ReadPaths(fs, i + 1, pairs)
    ELSE IF fs[i].st = "denied"
    THEN [pairs |-> pairs, exc |-> "PermissionError"]
    ELSE LET r == ReadLines(fs[i].lines, 1, pairs) IN
         IF r.exc /= "none" THEN r
         ELSE ReadPaths(fs, i + 1, r.pairs)

read_os_release(etc, usr) == ReadPaths(<<etc, usr>>, 1, <<>>)

\* dict(pairs): a later pair replaces an earlier one with the same key
DictHas(pairs, key) == \E i \in 1..Len(pairs) : pairs[i][1] = key
DictGet(pairs, key) ==
    LET last == CHOOSE i \in 1..Len(pairs) :
                    /\ pairs[i][1] = key
                    /\ \A j \in (i + 1)..Len(pairs) : pairs[j][1] /= key
    IN pairs[last][2]

\* body of distro_id, without the cache
DistroIdBody(etc, usr) ==
    LET r == read_os_release(etc, usr) IN
    IF IsOSError(r.exc) THEN [val |-> W("unknown"), exc |-> "none"]
    ELSE IF r.exc /= "none" THEN [val |-> <<>>, exc |-> r.exc]
    ELSE IF DictHas(r.pairs, "ID")
    THEN [val |-> DictGet(r.pairs, "ID"), exc |-> "none"]
    ELSE [val |-> <<>>, exc |-> "KeyError"]

\* distro_id under functools.cache: a returned value is kept, a raise is not
distro_id(cache, etc, usr) ==
    IF cache /= None THEN [val |-> cache[1], exc |-> "none"]
    ELSE DistroIdBody(etc, usr)
CacheAfter(cache, d) == IF d.exc = "none" THEN Some(d.val) ELSE cache

\* ------------------------------------------------------ set_terminal_args
\* a slip in line 205: the flag is flipped instead of set
NewTabAfter_toggled(newer_tab, data, old_new_tab) ==
    IF newer_tab /\ Truthy(data.new_tab_arguments) THEN ~old_new_tab
    ELSE old_new_tab

\* lines 204-208: the global new_tab after the tab/window decision
NewTabAfter(newer_tab, data, old_new_tab) ==
    IF newer_tab /\ Truthy(data.new_tab_arguments) THEN newer_tab
    ELSE old_new_tab

\* line 211: launch through the flatpak runner?
UseFlatpak(mode, data) ==
    mode /= FLATPAK_PARMS[1] /\ data.flatpak_package /= None

\* line 212: the flatpak prefix, "--" + flatpak being one string
FlatpakCmd(mode, data) ==
    <<W("flatpak"), W("run"), <<"--", mode>>, W(data.flatpak_package[1])>>

\* line 216: is distro_id() called on this path?
NeedsDistro(value) == value = "blackbox"

\* lines 216-218 left out: no rename on fedora
DirectCmd_noRename(value, d) == <<W(value)>>

\* lines 215-218: the direct prefix, given what distro_id() returned
DirectCmd(value, d) ==
    IF NeedsDistro(value) /\ d.exc = "none" /\ d.val = W("fedora")
    THEN <<W("blackbox-terminal")>>
    ELSE <<W(value)>>

\* the whole handler, for the settings it reads from the store
set_terminal_args(value, newer_tab, flatpak_enum) ==
    LET mode == FLATPAK_PARMS[flatpak_enum + 1]
        new_terminal_data == TerminalsGet(value)
    IN
    IF new_terminal_data = None
    THEN \* line 195 has already assigned flatpak when line 199 returns
         /\ flatpak' = mode
         /\ UNCHANGED <<terminal, terminal_cmd, terminal_data, new_tab,
                        distro_cache>>
         /\ raised' = "none"
    ELSE LET data == new_terminal_data[1] IN
         /\ terminal' = value
         /\ terminal_data' = data
         /\ new_tab' = NewTabAfter(newer_tab, data, new_tab)
         /\ IF UseFlatpak(mode, data)
            THEN /\ terminal_cmd' = Some(FlatpakCmd(mode, data))
                 /\ flatpak' = mode
                 /\ raised' = "none"
                 /\ UNCHANGED distro_cache
            ELSE IF NeedsDistro(value)
            THEN LET d == distro_id(distro_cache, etc_os_release,
                                    usr_lib_os_release) IN
                 /\ terminal_cmd' = Some(DirectCmd(value, d))
                 /\ distro_cache' = CacheAfter(distro_cache, d)
                 /\ raised' = d.exc
                 \* line 219 is not reached when distro_id raises
                 /\ flatpak' = IF d.exc = "none" THEN FLATPAK_PARMS[1]
                               ELSE mode
            ELSE /\ terminal_cmd' = Some(DirectCmd(value, [val |-> <<>>,
                                                          exc |-> "none"]))
                 /\ flatpak' = FLATPAK_PARMS[1]
                 /\ raised' = "none"
                 /\ UNCHANGED distro_cache

\* --------------------------------------------------- open_terminal_in_uri
\* urllib.parse.unquote on one token: an escape becomes its character
Decode(tok) ==
    CASE tok = "%20" -> " "
      [] tok = "%27" -> "'"
      [] tok = "%2F" -> "/"
      [] OTHER -> tok
unquote(path) == [i \in 1..Len(path) |-> Decode(path[i])]

\* shlex.quote: unchanged when every character is safe, '' when empty,
\* otherwise wrapped in single quotes with each ' written as '"'"'
SafeChars == {"/", "d", ".", "-", "_", "%"}
IsSafe(str) == \A i \in 1..Len(str) : str[i] \in SafeChars
RECURSIVE EscapeQuotes(_)
EscapeQuotes(str) ==
    IF str = <<>> THEN <<>>
    ELSE (IF Head(str) = "'" THEN <<"'\"'\"'">> ELSE <<Head(str)>>)
         \o EscapeQuotes(Tail(str))
shlex_quote(str) ==
    IF str = <<>> THEN <<"''">>
    ELSE IF IsSafe(str) THEN str
    ELSE <<"'">> \o EscapeQuotes(str) \o <<"'">>

\* truthiness of result.username (None or "") and result.port (None or 0)
HasUsername(uri) == uri.username /= None /\ uri.username[1] /= ""
HasPort(uri) == uri.port /= None /\ uri.port[1] /= 0

\* lines 161-164
SshTarget(uri) ==
    IF HasUsername(uri) THEN <<uri.username[1], "@", uri.hostname>>
    ELSE <<uri.hostname>>

\* lines 166-168
PortArgs(uri) ==
    IF HasPort(uri) THEN <<W("-p"), W(ToString(uri.port[1]))>> ELSE <<>>

\* line 170 without shlex.quote
RemoteTail_unquoted(uri) ==
    <<W("cd"), unquote(uri.path), W(";"), W("exec"), W("$SHELL")>>

\* line 170
RemoteTail(uri) ==
    <<W("cd"), shlex_quote(unquote(uri.path)), W(";"), W("exec"), W("$SHELL")>>

\* lines 159-170: the remote branch
RemoteCmd(cmd, data, uri) ==
    cmd \o data.command_arguments \o <<W("ssh"), W("-t")>>
        \o <<SshTarget(uri)>> \o PortArgs(uri) \o RemoteTail(uri)

\* lines 175-178
TabOrWindowArgs(tab, data) ==
    IF tab /\ Truthy(data.new_tab_arguments)
    THEN ListOf(data.new_tab_arguments)
    ELSE IF Truthy(data.new_window_arguments)
    THEN ListOf(data.new_window_arguments)
    ELSE <<>>

\* line 180 without the test of filename
WorkdirArgs_anyPath(filename, data) ==
    IF Truthy(data.workdir_arguments)
    THEN ListOf(data.workdir_arguments) \o <<filename>>
    ELSE <<>>

\* lines 180-182
WorkdirArgs(filename, data) ==
    IF filename /= <<>> /\ Truthy(data.workdir_arguments)
    THEN ListOf(data.workdir_arguments) \o <<filename>>
    ELSE <<>>

\* lines 174-182: the local branch
LocalCmd(cmd, tab, data, uri) ==
    cmd \o TabOrWindowArgs(tab, data) \o WorkdirArgs(unquote(uri.path), data)

\* line 157: cmd is a copy, so the list the global terminal_cmd names after
\* the appends to cmd is still the list it named before them
CmdCopy(cmd_global, cmd_built) == cmd_global

\* a Popen call: its argv and its cwd keyword (None when not given)
Popen(argv, cwd) == [argv |-> argv, cwd |-> cwd]

IsRemote(uri) == uri.scheme \in REMOTE_URI_SCHEME

open_terminal_in_uri(uri) ==
    IF terminal_cmd = None
    THEN \* None.copy() raises before anything is built
         /\ raised' = "AttributeError"
         /\ spawned' = <<>>
         /\ UNCHANGED config
    ELSE LET cmd == IF IsRemote(uri)
                    THEN RemoteCmd(terminal_cmd[1], terminal_data, uri)
                    ELSE LocalCmd(terminal_cmd[1], new_tab, terminal_data, uri)
         IN
         /\ spawned' = <<Popen(cmd, IF IsRemote(uri) THEN None
                                    ELSE Some(unquote(uri.path)))>>
         /\ raised' = "none"
         /\ terminal_cmd' = Some(CmdCopy(terminal_cmd[1], cmd))
         /\ UNCHANGED <<terminal, terminal_data, new_tab, flatpak>>

\* ----------------------------------------------------------------- inputs
\* a parsed URI: scheme, username (Optional[str]), hostname, port
\* (Optional[int]) and the still percent-encoded path
Uri(scheme, username, hostname, port, path) ==
    [scheme |-> scheme, username |-> username, hostname |-> hostname,
     port |-> port, path |-> path]

PathTokens == {"/", "%20", "'"}
RECURSIVE SeqsUpTo(_, _)
SeqsUpTo(S, n) ==
    IF n = 0 THEN {<<>>}
    ELSE LET shorter == SeqsUpTo(S, n - 1) IN
         shorter \cup {Append(q, x) : q \in shorter, x \in S}
Paths == SeqsUpTo(PathTokens, MaxPathLen)

LocalUris == {Uri("file", None, "", None, p) : p \in Paths}
RemoteUris ==
    {Uri("sftp", u, "example.com", pt, p) :
        u \in {None, Some("bob")}, pt \in {None, Some(2222)}, p \in Paths}
    \cup {Uri("ftp", Some(""), "example.com", Some(0), p) : p \in Paths}
Uris == LocalUris \cup RemoteUris

Settings(value, tab, enum) ==
    [terminal |-> value, new_tab |-> tab, flatpak |-> enum]
FlatpakEnums == 0..(Len(FLATPAK_PARMS) - 1)
SettingsValues ==
    {Settings(v, b, e) : v \in TerminalValues, b \in BOOLEAN, e \in FlatpakEnums}

IdFedora == Assign("ID", <<"fedora">>)
IdDebianQuoted == Assign("ID", <<"\"", "debian", "\"">>)
LineValues ==
    {BlankLine, CommentLine, BadLine, IdFedora, IdDebianQuoted,
     Assign("NAME", <<"'", "Linux", "'">>),
     Assign("ID", <<"\"", "fedora">>)}
FileValues ==
    {Missing, Denied} \cup {Present(ls) : ls \in SeqsUpTo(LineValues, MaxLines)}

\* ------------------------------------------------------------------ state
\* lines 98-102: the module-level globals before the settings are read
InitGlobals ==
    /\ terminal = "gnome-terminal"
    /\ terminal_cmd = None
    /\ terminal_data = TERMINALS["gnome-terminal"]
    /\ new_tab = FALSE
    /\ flatpak = FLATPAK_PARMS[1]
    /\ distro_cache = None
    /\ connected = FALSE
    /\ pc = "load"
    /\ lastOp = "import"
    /\ raised = "none"
    /\ lastUri = None
    /\ spawned = <<>>

Init ==
    /\ etc_os_release \in {Missing, Present(<<IdFedora>>)}
    /\ usr_lib_os_release \in {Missing, Present(<<IdDebianQuoted>>)}
    /\ gsettings \in SettingsValues
    /\ InitGlobals

\* every os-release content within the bound, the settings asking for the
\* one terminal whose prefix depends on the distribution
InitOS ==
    /\ etc_os_release \in FileValues
    /\ usr_lib_os_release \in FileValues
    /\ gsettings \in {Settings("blackbox", b, 0) : b \in BOOLEAN}
    /\ InitGlobals

\* ---------------------------------------------------------------- actions
\* the "changed" callback, reading the three keys from the store; key is
\* the settings key whose change ran it ("startup" for the call of line 331)
Changed(store, key) ==
    /\ set_terminal_args(store.terminal, store.new_tab, store.flatpak)
    /\ lastOp' = key
    /\ lastUri' = None
    /\ spawned' = <<>>

\* lines 327-331: the end of the module import
Startup ==
    /\ pc = "load"
    /\ \E schema \in BOOLEAN :
         IF schema
         THEN /\ connected' = TRUE
              /\ Changed(gsettings, "startup")
              /\ pc' = IF raised' = "none" THEN "running" ELSE "failed"
         ELSE /\ pc' = "running"
              /\ lastOp' = "import"
              /\ UNCHANGED <<connected, config, distro_cache, raised, lastUri,
                             spawned>>
    /\ UNCHANGED <<files, gsettings>>

Running == pc = "running" /\ connected

TerminalChanged ==
    /\ Running
    /\ \E v \in TerminalValues \ {gsettings.terminal} :
         /\ gsettings' = [gsettings EXCEPT !.terminal = v]
         /\ Changed(gsettings', "terminal")
    /\ UNCHANGED <<files, connected, pc>>

NewTabChanged ==
    /\ Running
    /\ gsettings' = [gsettings EXCEPT !.new_tab = ~gsettings.new_tab]
    /\ Changed(gsettings', "new-tab")
    /\ UNCHANGED <<files, connected, pc>>

FlatpakChanged ==
    /\ Running
    /\ \E e \in FlatpakEnums \ {gsettings.flatpak} :
         /\ gsettings' = [gsettings EXCEPT !.flatpak = e]
         /\ Changed(gsettings', "flatpak")
    /\ UNCHANGED <<files, connected, pc>>

\* a change of the keybindings key: the callback runs, the three keys it
\* reads are as they were
KeybindingsChanged ==
    /\ Running
    /\ Changed(gsettings, "keybindings")
    /\ UNCHANGED <<files, gsettings, connected, pc>>

\* _menu_activate_cb
MenuActivate ==
    /\ pc = "running"
    /\ \E uri \in Uris :
         /\ open_terminal_in_uri(uri)
         /\ lastUri' = Some(uri)
    /\ lastOp' = "open_terminal_in_uri"
    /\ UNCHANGED <<files, gsettings, connected, distro_cache, pc>>

Next ==
    \/ Startup
    \/ TerminalChanged
    \/ NewTabChanged
    \/ FlatpakChanged
    \/ KeybindingsChanged
    \/ MenuActivate

Spec == Init /\ [][Next]_vars

NextOS ==
    \/ Startup
    \/ KeybindingsChanged

SpecOS == InitOS /\ [][NextOS]_vars

\* ================================================================ claims
IsResolve(op) ==
    op \in {"startup", "terminal", "new-tab", "flatpak", "keybindings"}
Known(value) == value \in DOMAIN TERMINALS
SettingsMode == FLATPAK_PARMS[gsettings.flatpak + 1]

\* C1: a set_terminal_args call that reads an identifier which is not in the
\* registry leaves terminal, terminal_cmd, terminal_data, new_tab and flatpak
\* as they were and does not raise.
C1_UnknownLeavesConfig ==
    [][(IsResolve(lastOp') /\ ~Known(gsettings'.terminal))
          => (config' = config /\ raised' = "none")]_vars

\* new-tab mode as a local launch decides it (line 175)
InNewTabMode == new_tab /\ Truthy(terminal_data.new_tab_arguments)

\* C2: after a set_terminal_args call with a known identifier, the
\* configuration is in new-tab mode exactly when the new-tab setting is on
\* and the active terminal has new-tab arguments.
C2_TabModeFollowsSetting ==
    (IsResolve(lastOp) /\ Known(gsettings.terminal))
        => (InNewTabMode <=>
                (gsettings.new_tab
                 /\ TERMINALS[gsettings.terminal].new_tab_arguments /= None))

\* C3: after a set_terminal_args call with a known identifier, terminal_cmd
\* is ["flatpak", "run", "--" + mode, package] when the mode is not off and
\* the terminal has a package; otherwise flatpak is off and terminal_cmd is
\* [identifier], or ["blackbox-terminal"] exactly for blackbox on fedora.
C3_CommandPrefix ==
    (IsResolve(lastOp) /\ Known(gsettings.terminal))
        => LET id == gsettings.terminal
               pkg == TERMINALS[id].flatpak_package
           IN
           IF SettingsMode \in {"system", "user"} /\ pkg /= None
           THEN terminal_cmd =
                    Some(<<<<"flatpak">>, <<"run">>, <<"--", SettingsMode>>,
                           <<pkg[1]>>>>)
           ELSE /\ flatpak = "off"
                /\ terminal_cmd =
                       Some(<<IF id = "blackbox"
                                 /\ distro_cache = Some(<<"fedora">>)
                              THEN <<"blackbox-terminal">> ELSE <<id>>>>)

\* C3 witnesses: tilix under flatpak --user, and blackbox renamed on fedora
C3_Witness ==
    /\ IsResolve(lastOp)
    /\ gsettings.terminal = "tilix" /\ SettingsMode = "user"
    /\ terminal_cmd = Some(<<<<"flatpak">>, <<"run">>, <<"--", "user">>,
                             <<"com.gexperts.Tilix">>>>)
C3_WitnessFedora ==
    /\ IsResolve(lastOp)
    /\ gsettings.terminal = "blackbox"
    /\ terminal_cmd = Some(<<<<"blackbox-terminal">>>>)

\* C7: a set_terminal_args call that follows a set_terminal_args call and
\* reads the same settings leaves the five configuration fields as the first
\* call left them.
C7_Idempotent ==
    [][(IsResolve(lastOp) /\ IsResolve(lastOp') /\ gsettings' = gsettings)
          => config' = config]_vars

\* C7 witness: the handler has run again on unchanged settings, with the
\* new-tab flag set by the earlier call
C7_Witness ==
    /\ lastOp = "keybindings"
    /\ gsettings.terminal = "gnome-terminal" /\ gsettings.new_tab
    /\ new_tab

\* C9: once the import has finished with the schema present, terminal_cmd is
\* a list that is [binary] or ["flatpak", "run", "--" + mode, package] of the
\* active terminal.
C9_PrefixDefined ==
    (pc = "running" /\ connected)
        => /\ terminal_cmd /= None
           /\ \/ terminal_cmd[1] \in {<<<<terminal>>>>,
                                      <<<<"blackbox-terminal">>>>}
              \/ /\ terminal_data.flatpak_package /= None
                 /\ \E m \in {"system", "user"} :
                      terminal_cmd[1] =
                          <<<<"flatpak">>, <<"run">>, <<"--", m>>,
                            <<terminal_data.flatpak_package[1]>>>>

\* ------------------------------------------------- C4, C8 (under SpecOS)
IsIdLine(line) == line.k = "assign" /\ line.name = "ID"
HasIdField(f) ==
    f.st = "ok" /\ \E i \in 1..Len(f.lines) : IsIdLine(f.lines[i])
\* neither file exists, or no ID field can be read from either
NoDistroData ==
    \/ etc_os_release = Missing /\ usr_lib_os_release = Missing
    \/ ~HasIdField(etc_os_release) /\ ~HasIdField(usr_lib_os_release)

\* C4: when the os-release data is missing or has no readable ID field,
\* distro_id gives "unknown" without raising, and set_terminal_args for
\* blackbox with flatpak off ends with terminal_cmd = ["blackbox"].
C4_MissingIsUnknown ==
    (IsResolve(lastOp) /\ gsettings.terminal = "blackbox"
       /\ SettingsMode = "off" /\ NoDistroData)
        => /\ raised = "none"
           /\ distro_cache = Some(<<"unknown">>)
           /\ terminal_cmd = Some(<<<<"blackbox">>>>)

\* the value of an ID line with its quoting stripped
Unquoted(val) ==
    IF val /= <<>> /\ val[1] \in {"\"", "'"} /\ Len(val) >= 2
    THEN SubSeq(val, 2, Len(val) - 1) ELSE val
\* a readable file whose only content is one well-formed ID line
OneIdFile(f) ==
    /\ f.st = "ok" /\ Len(f.lines) = 1 /\ IsIdLine(f.lines[1])
    /\ (f.lines[1].val[1] \in {"\"", "'"}
           => f.lines[1].val[Len(f.lines[1].val)] = f.lines[1].val[1])
IdOf(f) == Unquoted(f.lines[1].val)

\* C8: when /etc/os-release and /usr/lib/os-release both exist and give
\* different ID values, the distribution id set_terminal_args uses is the one
\* of /etc/os-release.
C8_EtcWins ==
    (IsResolve(lastOp) /\ OneIdFile(etc_os_release)
       /\ OneIdFile(usr_lib_os_release)
       /\ IdOf(etc_os_release) /= IdOf(usr_lib_os_release))
        => distro_cache = Some(IdOf(etc_os_release))

\* ---------------------------------------------------------- C5, C6, C10
Launched == lastOp = "open_terminal_in_uri" /\ spawned /= <<>>

\* the characters of a token that stands for more than one character
Chars(tok) ==
    CASE tok = "'\"'\"'" -> <<"'", "\"", "'", "\"", "'">>
      [] tok = "''" -> <<"'", "'">>
      [] OTHER -> <<tok>>
RECURSIVE Flatten(_)
Flatten(str) ==
    IF str = <<>> THEN <<>> ELSE Chars(Head(str)) \o Flatten(Tail(str))

\* the words a POSIX shell splits a text into: quotes group, blanks split
RECURSIVE ShellWords(_, _, _, _, _)
ShellWords(cs, mode, cur, started, words) ==
    IF cs = <<>>
    THEN IF mode /= "plain" THEN <<<<"unterminated">>>>
         ELSE IF started THEN Append(words, cur) ELSE words
    ELSE LET c == Head(cs)
             rest == Tail(cs)
         IN
         IF mode = "sq"
         THEN IF c = "'" THEN ShellWords(rest, "plain", cur, TRUE, words)
              ELSE ShellWords(rest, "sq", Append(cur, c), TRUE, words)
         ELSE IF mode = "dq"
         THEN IF c = "\"" THEN ShellWords(rest, "plain", cur, TRUE, words)
              ELSE ShellWords(rest, "dq", Append(cur, c), TRUE, words)
         ELSE IF c = "'" THEN ShellWords(rest, "sq", cur, TRUE, words)
         ELSE IF c = "\"" THEN ShellWords(rest, "dq", cur, TRUE, words)
         ELSE IF c = " "
         THEN ShellWords(rest, "plain", <<>>, FALSE,
                         IF started THEN Append(words, cur) ELSE words)
         ELSE ShellWords(rest, "plain", Append(cur, c), TRUE, words)
ShellParse(str) == ShellWords(Flatten(str), "plain", <<>>, FALSE, <<>>)

\* the path of a URI with its percent escapes replaced
Decoded(path) ==
    [i \in 1..Len(path) |->
        IF path[i] = "%20" THEN " "
        ELSE IF path[i] = "%27" THEN "'"
        ELSE IF path[i] = "%2F" THEN "/" ELSE path[i]]

\* C5: on the remote branch the argv handed to Popen is terminal_cmd, the
\* terminal's command_arguments, "ssh", "-t", the target ("user@host" with a
\* username, "host" without), "-p" and the port only if the URI has a port,
\* then "cd", the decoded path as one shell-quoted word, ";", "exec",
\* "$SHELL"; no tab, window or workdir arguments.
C5_RemoteArgv ==
    (Launched /\ lastUri[1].scheme \in {"ftp", "sftp"})
        => LET uri == lastUri[1]
               argv == spawned[1].argv
               pre == terminal_cmd[1] \o terminal_data.command_arguments
                        \o <<<<"ssh">>, <<"-t">>>>
               n == Len(pre)
               target == IF uri.username \notin {None, Some("")}
                         THEN <<uri.username[1], "@", uri.hostname>>
                         ELSE <<uri.hostname>>
               withPort == argv[n + 2] = <<"-p">>
               k == IF withPort THEN n + 4 ELSE n + 2
           IN
           /\ Len(spawned) = 1
           /\ SubSeq(argv, 1, n) = pre
           /\ argv[n + 1] = target
           /\ withPort => (uri.port /= None
                           /\ argv[n + 3] = <<ToString(uri.port[1])>>)
           /\ (uri.port \notin {None, Some(0)}) => withPort
           /\ Len(argv) = k + 4
           /\ argv[k] = <<"cd">>
           /\ ShellParse(argv[k + 1]) = <<Decoded(uri.path)>>
           /\ SubSeq(argv, k + 2, k + 4) = <<<<";">>, <<"exec">>, <<"$SHELL">>>>

\* C5 witness: sftp://bob@example.com:2222/ with xterm
C5_Witness ==
    /\ Launched
    /\ lastUri = Some(Uri("sftp", Some("bob"), "example.com", Some(2222),
                          <<"/">>))
    /\ spawned[1].argv =
           <<<<"xterm">>, <<"-e">>, <<"ssh">>, <<"-t">>,
             <<"bob", "@", "example.com">>, <<"-p">>, <<"2222">>, <<"cd">>,
             <<"/">>, <<";">>, <<"exec">>, <<"$SHELL">>>>

\* C6: on the local branch the argv handed to Popen is terminal_cmd, then the
\* new-tab arguments if new_tab is set and the terminal has them, else the
\* new-window arguments if it has them, then the workdir arguments and the
\* decoded path only if that path is not empty and the terminal has workdir
\* arguments; cwd is the decoded path.
C6_LocalArgv ==
    (Launched /\ lastUri[1].scheme \notin {"ftp", "sftp"})
        => LET path == Decoded(lastUri[1].path)
               tabs == terminal_data.new_tab_arguments
               wins == terminal_data.new_window_arguments
               wds == terminal_data.workdir_arguments
               tabwin == IF new_tab /\ tabs /= None THEN tabs[1]
                         ELSE IF wins /= None THEN wins[1] ELSE <<>>
               wd == IF path /= <<>> /\ wds /= None
                     THEN wds[1] \o <<path>> ELSE <<>>
           IN
           /\ Len(spawned) = 1
           /\ spawned[1].argv = terminal_cmd[1] \o tabwin \o wd
           /\ spawned[1].cwd = Some(path)

\* C6 witness: an empty path with a terminal that has workdir arguments
C6_Witness ==
    /\ Launched
    /\ lastUri[1].scheme = "file" /\ lastUri[1].path = <<>>
    /\ terminal = "blackbox" /\ terminal_cmd = Some(<<<<"blackbox">>>>)
    /\ spawned[1].argv = <<<<"blackbox">>>>
\* an empty path with tab arguments still added
C6_WitnessTab ==
    /\ Launched
    /\ lastUri[1].scheme = "file" /\ lastUri[1].path = <<>>
    /\ spawned[1].argv = <<<<"gnome-terminal">>, <<"--tab">>>>

\* C10: every open_terminal_in_uri call makes exactly one Popen call and
\* leaves the five configuration fields as they were, and a call that follows
\* a call with the same URI hands Popen the same argv.
C10_LaunchFrame ==
    /\ [](lastOp = "open_terminal_in_uri" => Len(spawned) = 1)
    /\ [][lastOp' = "open_terminal_in_uri"
             => /\ config' = config
                /\ (lastOp = "open_terminal_in_uri" /\ lastUri' = lastUri)
                       => spawned' = spawned]_vars

\* what holds of the calls that get past line 157: one Popen call, the
\* configuration untouched, the same argv for the same URI
LaunchFrameWhenResolved ==
    [][(lastOp' = "open_terminal_in_uri" /\ terminal_cmd /= None)
          => /\ Len(spawned') = 1
             /\ config' = config
             /\ (lastOp = "open_terminal_in_uri" /\ lastUri' = lastUri)
                    => spawned' = spawned]_vars

====
